---- MODULE Spec2Model ----
(***************************************************************************)
(* A model of server.js: a one-route Express application.                  *)
(*                                                                         *)
(*   const express = require("express");                                   *)
(*   const app = express();                                                *)
(*   const PORT = process.env.PORT || 8080;                                *)
(*   app.get("/", (req, res) => res.send("Hello from Node.js ..."));       *)
(*   app.listen(PORT, () => console.log(`Server running on port ${PORT}`));*)
(*                                                                         *)
(* Text (environment values, request targets, what the template literal    *)
(* prints) is a sequence of one-character strings, so that parsing and     *)
(* formatting are computed, not assumed.  The calls into Express and Node  *)
(* (express(), app.get, res.send, app.listen, process signals) are         *)
(* modelled by what those libraries do for this program.                   *)
(***************************************************************************)
EXTENDS Integers, Sequences, FiniteSets

----------------------------------------------------------------------------
(* Bounds of the model *)

\* the number of requests a run sends to the server
MaxReq == 2

----------------------------------------------------------------------------
(* Text as sequences of characters *)

Digits == <<"0", "1", "2", "3", "4", "5", "6", "7", "8", "9">>

IsDigit(c) == \E d \in 1..10 : Digits[d] = c

DigitValue(c) == (CHOOSE d \in 1..10 : Digits[d] = c) - 1

\* String.prototype.trim, for the one white-space character of the alphabet
RECURSIVE TrimLeft(_)
TrimLeft(s) ==
    IF s # <<>> /\ Head(s) = " " THEN TrimLeft(Tail(s)) ELSE s

RECURSIVE TrimRight(_)
TrimRight(s) ==
    IF s # <<>> /\ s[Len(s)] = " " THEN TrimRight(SubSeq(s, 1, Len(s) - 1)) ELSE s

Trim(s) == TrimRight(TrimLeft(s))

AllDigits(s) == s # <<>> /\ \A k \in 1..Len(s) : IsDigit(s[k])

RECURSIVE DecimalValue(_)
DecimalValue(s) ==
    IF s = <<>> THEN 0
    ELSE 10 * DecimalValue(SubSeq(s, 1, Len(s) - 1)) + DigitValue(s[Len(s)])

\* JavaScript's Number(string) over the alphabet of digits, "-", " " and
\* letters: white space is trimmed, the empty string is 0, an optionally
\* signed run of digits is its value, everything else is NaN.
StringToNumber(s) ==
    LET t == Trim(s) IN
    IF t = <<>> THEN [nan |-> FALSE, val |-> 0]
    ELSE IF AllDigits(t) THEN [nan |-> FALSE, val |-> DecimalValue(t)]
    ELSE IF Head(t) = "-" /\ AllDigits(Tail(t))
         THEN [nan |-> FALSE, val |-> 0 - DecimalValue(Tail(t))]
    ELSE [nan |-> TRUE, val |-> 0]

\* JavaScript's String(number) for a non-negative integer, as `${PORT}` uses
RECURSIVE NumberToString(_)
NumberToString(n) ==
    IF n < 10 THEN <<Digits[n + 1]>>
    ELSE NumberToString(n \div 10) \o <<Digits[(n % 10) + 1]>>

----------------------------------------------------------------------------
(* Configuration: const PORT = process.env.PORT || 8080 *)

DefaultPort == 8080

\* the largest TCP port net.Server.listen accepts
MaxPort == 65535

\* process.env.PORT: unset, or a string
Unset == [set |-> FALSE, val |-> <<>>]

EnvString(s) == [set |-> TRUE, val |-> s]

\* the values of process.env.PORT the model starts the process with
EnvPortValues ==
    { Unset,
      EnvString(<<>>),
      EnvString(<<"a", "b", "c">>),
      EnvString(<<"-", "1">>),
      EnvString(<<"0">>),
      EnvString(<<"3", "0", "0", "0">>),
      EnvString(<<"8", "0", "8", "0">>),
      EnvString(<<"6", "5", "5", "3", "5">>),
      EnvString(<<"6", "5", "5", "3", "6">>) }

\* a JavaScript value that is a string or a number
JsString(s) == [type |-> "string", str |-> s, num |-> 0]

JsNumber(n) == [type |-> "number", str |-> <<>>, num |-> n]

\* a faulty PORT that ignores the environment
PORT_ignoresEnv(e) == JsNumber(DefaultPort)

\* process.env.PORT || 8080: an unset variable (undefined) and the empty
\* string are falsy, every other string is truthy and is kept as a string
PORT(e) ==
    IF e.set /\ e.val # <<>> THEN JsString(e.val) ELSE JsNumber(DefaultPort)

\* `${PORT}`
PortText(p) == IF p.type = "string" THEN p.str ELSE NumberToString(p.num)

----------------------------------------------------------------------------
(* app.listen(PORT, callback): what net.Server.listen does with PORT *)

Tcp(n) == [kind |-> "tcp", port |-> n, path |-> <<>>]

Pipe(s) == [kind |-> "pipe", port |-> 0, path |-> s]

ListenThrows == [kind |-> "throw", port |-> 0, path |-> <<>>]

\* the ports the system picks from when asked to bind port 0
EphemeralPorts == {32768, 60999}

\* net.js isPipeName: a string whose Number() is NaN or negative is the
\* path of a local socket, not a port
IsPipeName(p) ==
    /\ p.type = "string"
    /\ LET n == StringToNumber(p.str) IN n.nan \/ n.val < 0

\* validatePort: an integer in 0..65535, and not a blank string
ValidPort(p) ==
    IF p.type = "number" THEN p.num >= 0 /\ p.num <= MaxPort
    ELSE /\ Trim(p.str) # <<>>
         /\ LET n == StringToNumber(p.str) IN
            ~n.nan /\ n.val >= 0 /\ n.val <= MaxPort

PortNumber(p) == IF p.type = "number" THEN p.num ELSE StringToNumber(p.str).val

\* where listen(PORT) asks the system to bind, or that it throws
\* ERR_SOCKET_BAD_PORT before asking
ListenTarget(p) ==
    IF IsPipeName(p) THEN Pipe(p.str)
    ELSE IF ValidPort(p) THEN Tcp(PortNumber(p))
    ELSE ListenThrows

\* the endpoints a successful bind of target t can end on
BoundEndpoints(t) ==
    IF t.kind = "tcp" /\ t.port = 0 THEN {Tcp(n) : n \in EphemeralPorts} ELSE {t}

\* console.log(`Server running on port ${PORT}`)
StartupLine(e) == [text |-> "Server running on port ", port |-> PortText(PORT(e))]

\* the Express versions `npm install express` (README, step 1) installs:
\* the dependency is not pinned by the sources
ExpressMajors == {4, 5}

\* Express 5's app.listen also registers the callback for the server's
\* 'error' event (server.once('error', done)); Express 4 registers it for
\* 'listening' alone, and a failed bind is then an unhandled 'error' event
CallbackOnError(major) == major >= 5

----------------------------------------------------------------------------
(* HTTP: requests, and the response of the Express application *)

Greeting == "Hello from Node.js app in Kubernetes!"

\* the weak ETag res.send computes from the greeting
GreetingETag == "W/etag(greeting)"

\* the routes registered by app.get("/", ...)
Routes == { [method |-> "GET", path |-> <<"/">>] }

Html == [media |-> "text/html", charset |-> "utf-8"]

PlainText == [media |-> "text/plain", charset |-> ""]

NoContentType == [media |-> "", charset |-> ""]

NoResp == [status |-> 0, body |-> "", contentType |-> NoContentType, etag |-> ""]

Request(m, u, inm, ims, cc, ex) ==
    [method |-> m, url |-> u, ifNoneMatch |-> inm, ifModifiedSince |-> ims,
     cacheControl |-> cc, expect |-> ex]

\* the requests clients send in the model
SampleRequests ==
    { Request("GET", <<"/">>, "", FALSE, "", ""),
      Request("GET", <<"/", "?", "a">>, "", FALSE, "", ""),
      Request("GET", <<"/">>, GreetingETag, FALSE, "", ""),
      Request("GET", <<"/">>, "*", FALSE, "no-cache", ""),
      Request("GET", <<"/">>, GreetingETag, TRUE, "", ""),
      Request("GET", <<"/">>, "", FALSE, "", "other"),
      Request("HEAD", <<"/">>, "", FALSE, "", ""),
      Request("OPTIONS", <<"/">>, "", FALSE, "", ""),
      Request("POST", <<"/">>, "", FALSE, "", ""),
      Request("GET", <<"/", "x", "?", "a">>, "", FALSE, "", "") }

\* a faulty Pathname that keeps the query string in the path
Pathname_keepsQuery(u) == u

\* parseurl(req).pathname: the request target up to the first "?"
RECURSIVE Pathname(_)
Pathname(u) ==
    IF u = <<>> \/ Head(u) = "?" THEN <<>> ELSE <<Head(u)>> \o Pathname(Tail(u))

\* a faulty HandlesMethod: the route registered for every method (app.all)
HandlesMethod_all(route, m) == TRUE

\* Route.prototype._handles_method: a GET route also handles HEAD
HandlesMethod(route, m) ==
    route.method = (IF m = "HEAD" THEN "GET" ELSE m)

\* the routes whose path matches the request's path
MatchingRoutes(req) == { r \in Routes : r.path = Pathname(req.url) }

\* Node's http server answers an Expect header other than 100-continue
\* with 417 itself; every other request is handed to the application
Delivered(req) == req.expect \in {"", "100-continue"}

\* req.fresh for a response with status 200 and ETag etag and no
\* Last-Modified (res.send sets none): the package `fresh`, version 0.5 with
\* Express 4 and version 2 with Express 5
Fresh(major, req, etag) ==
    /\ req.method \in {"GET", "HEAD"}
    /\ req.ifModifiedSince \/ req.ifNoneMatch # ""
    /\ req.cacheControl # "no-cache"
    /\ IF major >= 5
       THEN /\ req.ifNoneMatch # ""
            /\ req.ifNoneMatch \in {"*", etag}
       ELSE /\ req.ifNoneMatch \in {"", "*", etag}
            /\ ~req.ifModifiedSince

\* res.send(body) for a string body: Content-Type text/html, a generated
\* ETag, 304 without body or Content-Type when the request is fresh, no
\* body for HEAD
Send(major, req, body) ==
    IF Fresh(major, req, GreetingETag)
    THEN [status |-> 304, body |-> "", contentType |-> NoContentType,
          etag |-> GreetingETag]
    ELSE [status |-> 200, body |-> IF req.method = "HEAD" THEN "" ELSE body,
          contentType |-> Html, etag |-> GreetingETag]

\* the router's automatic answer to OPTIONS on a path that has routes
OptionsResponse(major) ==
    IF major >= 5
    THEN [status |-> 200, body |-> "GET, HEAD", contentType |-> PlainText,
          etag |-> ""]
    ELSE [status |-> 200, body |-> "GET,HEAD", contentType |-> Html,
          etag |-> "W/etag(allow)"]

\* finalhandler: no route answered
NotFound(req) ==
    [status |-> 404, body |-> IF req.method = "HEAD" THEN "" ELSE "Cannot METHOD PATH",
     contentType |-> Html, etag |-> ""]

ExpectationFailed == [status |-> 417, body |-> "", contentType |-> NoContentType, etag |-> ""]

\* the response to one request
Respond(major, req) ==
    IF ~Delivered(req) THEN ExpectationFailed
    ELSE IF \E r \in MatchingRoutes(req) : HandlesMethod(r, req.method)
         THEN Send(major, req, Greeting)
    ELSE IF req.method = "OPTIONS" /\ MatchingRoutes(req) # {}
         THEN OptionsResponse(major)
    ELSE NotFound(req)

----------------------------------------------------------------------------
(* The process *)

VARIABLES
    env,           \* process.env.PORT when the process starts
    major,         \* the major version of the installed Express
    bindResult,    \* what the system answers to the bind: "ok" or an error code
    state,         \* "Starting", "Serving" or "Stopped"
    pc,            \* "main": server.js not yet run; "bind": listen() called,
                   \* the bind not yet answered; "loop": serving; "exited"
    listening,     \* the endpoints the process listens on
    log,           \* the lines written by console.log
    exitCode,      \* the exit code, -1 while the process runs
    cause,         \* why the process ended: "", "throw", "bind-error", "signal"
    bindAttempts,  \* the number of calls of listen()
    reqs,          \* the requests received, in order of arrival
    resp           \* resp[i]: the response to reqs[i], NoResp while in flight

vars == <<env, major, bindResult, state, pc, listening, log, exitCode, cause,
          bindAttempts, reqs, resp>>

config == <<env, major, bindResult>>

BindResults == {"ok", "EADDRINUSE", "EACCES"}

Init ==
    /\ env \in EnvPortValues
    /\ major \in ExpressMajors
    /\ bindResult \in BindResults
    /\ state = "Starting"
    /\ pc = "main"
    /\ listening = {}
    /\ log = <<>>
    /\ exitCode = -1
    /\ cause = ""
    /\ bindAttempts = 0
    /\ reqs = <<>>
    /\ resp = <<>>

\* server.js runs to its end: listen(PORT) accepted the port and asked for
\* the bind, which is answered in a later turn of the event loop
MainListen ==
    /\ pc = "main"
    /\ ListenTarget(PORT(env)).kind # "throw"
    /\ pc' = "bind"
    /\ bindAttempts' = bindAttempts + 1
    /\ UNCHANGED <<config, state, listening, log, exitCode, cause, reqs, resp>>

\* listen(PORT) throws ERR_SOCKET_BAD_PORT: an uncaught exception, exit code 1
MainThrows ==
    /\ pc = "main"
    /\ ListenTarget(PORT(env)).kind = "throw"
    /\ pc' = "exited"
    /\ state' = "Stopped"
    /\ exitCode' = 1
    /\ cause' = "throw"
    /\ bindAttempts' = bindAttempts + 1
    /\ UNCHANGED <<config, listening, log, reqs, resp>>

\* the bind succeeded: 'listening' is emitted and the callback logs
BindOk ==
    /\ pc = "bind"
    /\ bindResult = "ok"
    /\ \E e \in BoundEndpoints(ListenTarget(PORT(env))) : listening' = {e}
    /\ log' = Append(log, StartupLine(env))
    /\ state' = "Serving"
    /\ pc' = "loop"
    /\ UNCHANGED <<config, exitCode, cause, bindAttempts, reqs, resp>>

\* the bind failed: 'error' is emitted.  Where the callback listens for it
\* (Express 5) it logs its line, the error is dropped and the process, with
\* nothing left to wait for, ends with exit code 0; otherwise the event is
\* unhandled, an uncaught exception, and the exit code is 1
BindError ==
    /\ pc = "bind"
    /\ bindResult # "ok"
    /\ IF CallbackOnError(major)
       THEN log' = Append(log, StartupLine(env)) /\ exitCode' = 0
       ELSE log' = log /\ exitCode' = 1
    /\ state' = "Stopped"
    /\ pc' = "exited"
    /\ cause' = "bind-error"
    /\ UNCHANGED <<config, listening, bindAttempts, reqs, resp>>

\* a faulty Accepting: requests answered whatever the state of the process
Accepting_always == TRUE

\* connections are accepted, and requests answered, while the server listens
Accepting == state = "Serving" /\ listening # {}

\* a client's request arrives
Arrive(r) ==
    /\ state = "Serving"
    /\ Len(reqs) < MaxReq
    /\ reqs' = Append(reqs, r)
    /\ resp' = Append(resp, NoResp)
    /\ UNCHANGED <<config, state, pc, listening, log, exitCode, cause, bindAttempts>>

\* a faulty Handle: a request is answered only while no other request is
\* in flight
Handle_exclusive(i) ==
    /\ Accepting
    /\ i \in 1..Len(reqs)
    /\ resp[i] = NoResp
    /\ \A j \in 1..Len(reqs) : j # i => resp[j] # NoResp
    /\ resp' = [resp EXCEPT ![i] = Respond(major, reqs[i])]
    /\ UNCHANGED <<config, state, pc, listening, log, exitCode, cause, bindAttempts, reqs>>

\* the application answers request i
Handle(i) ==
    /\ Accepting
    /\ i \in 1..Len(reqs)
    /\ resp[i] = NoResp
    /\ resp' = [resp EXCEPT ![i] = Respond(major, reqs[i])]
    /\ UNCHANGED <<config, state, pc, listening, log, exitCode, cause, bindAttempts, reqs>>

\* SIGTERM: server.js installs no handler, so the process is terminated at
\* once (status 128 + 15), its sockets closed, requests in flight unanswered
Signal ==
    /\ state # "Stopped"
    /\ state' = "Stopped"
    /\ pc' = "exited"
    /\ exitCode' = 128 + 15
    /\ cause' = "signal"
    /\ listening' = {}
    /\ UNCHANGED <<config, log, bindAttempts, reqs, resp>>

Next ==
    \/ MainListen
    \/ MainThrows
    \/ BindOk
    \/ BindError
    \/ \E r \in SampleRequests : Arrive(r)
    \/ \E i \in 1..MaxReq : Handle(i)
    \/ Signal

Spec == Init /\ [][Next]_vars

\* the process while no termination signal is sent
NextRunning ==
    \/ MainListen
    \/ MainThrows
    \/ BindOk
    \/ BindError
    \/ \E r \in SampleRequests : Arrive(r)
    \/ \E i \in 1..MaxReq : Handle(i)

\* the event loop runs every callback that is due
Fairness ==
    /\ WF_vars(MainListen)
    /\ WF_vars(MainThrows)
    /\ WF_vars(BindOk)
    /\ WF_vars(BindError)
    /\ \A i \in 1..MaxReq : WF_vars(Handle(i))

LiveSpec == Init /\ [][NextRunning]_vars /\ Fairness

----------------------------------------------------------------------------
(* The vocabulary of the claims *)

InFlight(i) == i \in 1..Len(reqs) /\ resp[i] = NoResp

Answered(i) == i \in 1..Len(reqs) /\ resp[i] # NoResp

\* request i is answered by this step
AnsweredNow(i) == InFlight(i) /\ resp'[i] # NoResp

\* the request target is "/", with or without a query string
RootTarget(u) == u = <<"/">> \/ (Len(u) >= 2 /\ u[1] = "/" /\ u[2] = "?")

GetRoot(r) == r.method = "GET" /\ RootTarget(r.url)

\* no Expect header that Node's http server refuses with 417
ExpectSupported(r) == r.expect \in {"", "100-continue"}

\* a request that asks for no revalidation against an entity tag
Unconditional(r) == r.ifNoneMatch = ""

\* a revalidation that matches the greeting's entity tag
Revalidation(r) ==
    /\ r.ifNoneMatch \in {"*", GreetingETag}
    /\ r.cacheControl # "no-cache"
    /\ ~r.ifModifiedSince

\* process.env.PORT is a numeric string: one that Number() reads as a number
NumericPort(e) == e.set /\ e.val # <<>> /\ ~StringToNumber(e.val).nan

\* process.env.PORT names a port of the range 1..65535
ValidPortEnv(e) ==
    e.set /\ AllDigits(e.val) /\ DecimalValue(e.val) >= 1 /\ DecimalValue(e.val) <= 65535

\* the port process.env.PORT names, 0 when it names none
RequestedPort(e) == IF ValidPortEnv(e) THEN DecimalValue(e.val) ELSE 0

----------------------------------------------------------------------------
(* C1 *)

\* C1 as written: every answered GET / has status 200 and the exact
\* greeting as its body, whatever its headers and query string
C1_AlwaysGreeting ==
    \A i \in 1..Len(reqs) :
        Answered(i) /\ GetRoot(reqs[i]) =>
            resp[i].status = 200 /\ resp[i].body = Greeting

\* C1 as amended: every GET / without an If-None-Match header (and without
\* an Expect header that Node refuses) is answered 200 with the exact
\* greeting, whatever its query string, its other headers and the requests
\* handled before; a GET / whose If-None-Match is "*" or the greeting's
\* entity tag (no Cache-Control: no-cache, no If-Modified-Since) is answered
\* 304 with an empty body
C1_GreetingUnlessRevalidated ==
    \A i \in 1..Len(reqs) :
        Answered(i) /\ GetRoot(reqs[i]) /\ ExpectSupported(reqs[i]) =>
            /\ Unconditional(reqs[i]) =>
                   resp[i].status = 200 /\ resp[i].body = Greeting
            /\ Revalidation(reqs[i]) =>
                   resp[i].status = 304 /\ resp[i].body = ""

\* a GET / with a query string answered with the greeting after or beside a
\* revalidation answered 304
C1_Witness ==
    \E i, j \in 1..Len(reqs) :
        /\ Answered(i) /\ GetRoot(reqs[i]) /\ reqs[i].url # <<"/">>
        /\ resp[i].status = 200 /\ resp[i].body = Greeting
        /\ Answered(j) /\ GetRoot(reqs[j]) /\ resp[j].status = 304

----------------------------------------------------------------------------
(* C2 *)

\* C2: when PORT is missing or is not a numeric string, startup raises no
\* error and the server binds port 8080
C2_FallsBackTo8080 ==
    ~NumericPort(env) =>
        /\ cause # "throw"
        /\ state = "Serving" => listening = {Tcp(8080)}

----------------------------------------------------------------------------
(* C3 *)

\* C3 as written: a request whose method is not GET or whose path is not
\* "/" is answered 404 or 405, and the server is Serving afterwards
C3_OthersNever200 ==
    [][\A i \in 1..MaxReq :
           AnsweredNow(i) /\ ~GetRoot(reqs[i]) =>
               resp'[i].status \in {404, 405} /\ state' = "Serving"]_vars

\* C3 as amended: a request whose path is not "/", or whose method is none
\* of GET, HEAD and OPTIONS, is answered 404 (417 by Node when it carries an
\* Expect header Node refuses), never 405; HEAD / and OPTIONS / are answered
\* by the GET route and by the router (200, or 304 for a revalidation); in
\* every case the process keeps running in Serving and keeps listening
C3_OthersNotFound ==
    [][\A i \in 1..MaxReq :
           AnsweredNow(i) /\ ~GetRoot(reqs[i]) =>
               /\ state' = "Serving" /\ exitCode' = -1 /\ listening' # {}
               /\ resp'[i].status =
                      IF ~ExpectSupported(reqs[i]) THEN 417
                      ELSE IF /\ RootTarget(reqs[i].url)
                              /\ reqs[i].method \in {"HEAD", "OPTIONS"}
                           THEN IF reqs[i].method = "HEAD" /\ Revalidation(reqs[i])
                                THEN 304 ELSE 200
                      ELSE 404]_vars

\* a POST / answered 404 and a GET / answered 200 by the same process
C3_Witness ==
    /\ state = "Serving"
    /\ \E i, j \in 1..Len(reqs) :
           /\ Answered(i) /\ reqs[i].method = "POST" /\ RootTarget(reqs[i].url)
           /\ resp[i].status = 404
           /\ Answered(j) /\ GetRoot(reqs[j]) /\ resp[j].status = 200

----------------------------------------------------------------------------
(* C4 *)

\* C4: after a termination signal the requests that were in flight have
\* their responses and the exit code is 0
C4_GracefulShutdown ==
    cause = "signal" /\ reqs # <<>> =>
        /\ \A i \in 1..Len(reqs) : resp[i] # NoResp
        /\ exitCode = 0

----------------------------------------------------------------------------
(* C5 *)

\* C5: after a failed bind the process is Stopped with a non-zero exit
\* code, has not reported that it is running and has called listen() once
C5_BindFailureFailsFast ==
    cause = "bind-error" =>
        /\ state = "Stopped"
        /\ exitCode > 0
        /\ log = <<>>
        /\ bindAttempts = 1

----------------------------------------------------------------------------
(* C6 *)

\* C6: with PORT a port p of 1..65535 and a bind that succeeds, the server
\* comes to Serving, and in Serving it listens on port p and nothing else
C6_ListensOnRequestedPort ==
    /\ (ValidPortEnv(env) /\ bindResult = "ok")
           ~> (state = "Serving" /\ listening = {Tcp(RequestedPort(env))})
    /\ [](ValidPortEnv(env) /\ state = "Serving" =>
              listening = {Tcp(RequestedPort(env))})

\* Serving on a requested port that is not the default
C6_Witness ==
    /\ ValidPortEnv(env)
    /\ RequestedPort(env) # 8080
    /\ state = "Serving"
    /\ listening = {Tcp(RequestedPort(env))}

----------------------------------------------------------------------------
(* C7 *)

\* C7 as written: every GET / in flight is eventually answered, and all
\* answers to GET / have status 200 and the same body, the greeting
C7_AllAnsweredAlike ==
    /\ \A i \in 1..MaxReq : (InFlight(i) /\ GetRoot(reqs[i])) ~> Answered(i)
    /\ [](\A i, j \in 1..Len(reqs) :
              /\ Answered(i) /\ GetRoot(reqs[i])
              /\ Answered(j) /\ GetRoot(reqs[j])
              => /\ resp[i].status = 200
                 /\ resp[i].body = Greeting
                 /\ resp[i].body = resp[j].body)

\* C7 as amended: every GET / in flight at a Serving server is eventually
\* answered, in whatever order the requests are handled; the answers to
\* those without an If-None-Match header (and without an Expect header Node
\* refuses) all have status 200 and the same body, the greeting; a
\* revalidation is answered 304 with an empty body
C7_AllAnswered ==
    /\ \A i \in 1..MaxReq : (InFlight(i) /\ GetRoot(reqs[i])) ~> Answered(i)
    /\ [](\A i, j \in 1..Len(reqs) :
              /\ Answered(i) /\ GetRoot(reqs[i]) /\ ExpectSupported(reqs[i])
              /\ Answered(j) /\ GetRoot(reqs[j]) /\ ExpectSupported(reqs[j])
              => /\ Unconditional(reqs[i]) =>
                         resp[i].status = 200 /\ resp[i].body = Greeting
                 /\ Unconditional(reqs[i]) /\ Unconditional(reqs[j]) =>
                         resp[i].body = resp[j].body
                 /\ Revalidation(reqs[i]) =>
                         resp[i].status = 304 /\ resp[i].body = "")

\* two GET / in flight at once: the later one already answered with the
\* greeting, the earlier one not yet answered
C7_Witness ==
    /\ Len(reqs) >= 2
    /\ GetRoot(reqs[1]) /\ InFlight(1)
    /\ GetRoot(reqs[2]) /\ Answered(2)
    /\ resp[2].status = 200 /\ resp[2].body = Greeting

----------------------------------------------------------------------------
(* C8 *)

\* C8: every response with status 200 to GET / has content type text/plain
C8_TextPlain ==
    \A i \in 1..Len(reqs) :
        Answered(i) /\ GetRoot(reqs[i]) /\ resp[i].status = 200 =>
            resp[i].contentType.media = "text/plain"

----------------------------------------------------------------------------
(* C9 *)

\* C9: the state is Starting, Serving or Stopped; it changes only from
\* Starting to Serving (with a bound socket), from Starting to Stopped and
\* from Serving to Stopped; requests are answered only in Serving; nothing
\* leaves Stopped and no request is answered in it
C9_Lifecycle ==
    [][/\ state' \in {"Starting", "Serving", "Stopped"}
       /\ state' # state =>
              /\ <<state, state'>> \in { <<"Starting", "Serving">>,
                                         <<"Starting", "Stopped">>,
                                         <<"Serving", "Stopped">> }
              /\ state' = "Serving" => listening' # {}
              /\ state' = "Stopped" => exitCode' # -1
       /\ \A i \in 1..MaxReq : AnsweredNow(i) => state = "Serving"
       /\ state = "Stopped" => state' = "Stopped" /\ resp' = resp]_vars

\* Stopped from Serving, with one request answered while Serving and one
\* that was still in flight
C9_Witness ==
    /\ state = "Stopped"
    /\ cause = "signal"
    /\ \E i, j \in 1..Len(reqs) : Answered(i) /\ InFlight(j)

----------------------------------------------------------------------------
(* C10 *)

\* C10: the startup line is written at most once, never while Starting and
\* never after a failed start, and in Serving it names the bound port
C10_OneTruthfulStartupLine ==
    /\ Len(log) <= 1
    /\ state = "Starting" => log = <<>>
    /\ cause \in {"throw", "bind-error"} => log = <<>>
    /\ state = "Serving" =>
           /\ Len(log) = 1
           /\ \E e \in listening :
                  e.kind = "tcp" /\ log[1].port = NumberToString(e.port)

====
